---- MODULE Spec2Model ----
(***************************************************************************)
(* gpt-subb (src/src/index.ts): a subtitle file is parsed into nodes, each *)
(* node gets a random code, the cues that carry text are rendered as       *)
(* "<CODE>\ntext" items and sliced into batches, each batch is sent to the *)
(* chat completion endpoint, the replies are parsed back into              *)
(* (code, text) pairs and the pairs are merged onto the parsed nodes.      *)
(*                                                                         *)
(* Strings are modelled as sequences of lines (the string is the lines     *)
(* joined by "\n"), and a line as a sequence of chunks.  A chunk is a run  *)
(* of whitespace (" "), a marker "<TOKEN>", or any other run of            *)
(* characters.  The empty string is one empty line, << <<>> >>.            *)
(***************************************************************************)
EXTENDS Integers, Sequences, FiniteSets, TLC

(* Bounds of the model. *)
MaxCues == 2
MaxPlanCues == 4
MaxBatchSize == 2
MaxReplyLines == 2
MaxPairs == 2

(***************************************************************************)
(* Strings                                                                 *)
(***************************************************************************)

\* The values randomCode(3, 3) may return (three letters, three digits).
Codes == {"ABC123", "XYZ789"}

\* The token of the separator line translateQueue joins the items with.
Separator == "000000"

\* The strings the class [A-Z0-9]{6} of translatedToCues accepts.
Tokens == Codes \cup {Separator}

Marker(code) == "<" \o code \o ">"

IsMarker(chunk) == \E t \in Tokens : chunk = Marker(t)

TokenOf(chunk) == CHOOSE t \in Tokens : chunk = Marker(t)

EmptyLine == <<>>

EmptyString == <<EmptyLine>>

\* A line of whitespace only.
IsBlank(line) == \A i \in 1..Len(line) : line[i] = " "

RECURSIVE StripLeading(_)
StripLeading(line) ==
    IF line # <<>> /\ Head(line) = " " THEN StripLeading(Tail(line)) ELSE line

\* JavaScript's truth value of a string.
Truthy(str) == str # EmptyString

(***************************************************************************)
(* The replace of translateQueue: per line (flags g and m), leading        *)
(* whitespace, a captured rest of line, trailing whitespace, replaced by   *)
(* the capture.  The whitespace class also matches "\n": the leading run   *)
(* goes over blank lines and over the leading whitespace of the first line *)
(* that is not blank, the capture takes the rest of that line, and the     *)
(* trailing run goes over the blank lines that follow, up to the last end  *)
(* of line.  When the last blank line run over is empty, the next match    *)
(* begins where this one ended and takes the "\n" with it: the next line   *)
(* is glued to the previous one.                                           *)
(***************************************************************************)
RECURSIVE TrimFrom(_, _, _, _)
TrimFrom(lines, i, acc, glue) ==
    IF i > Len(lines) THEN acc
    ELSE IF IsBlank(lines[i])
         THEN TrimFrom(lines, i + 1, acc, acc # <<>> /\ lines[i] = EmptyLine)
    ELSE IF glue
         THEN TrimFrom(lines, i + 1,
                       [acc EXCEPT ![Len(acc)] = @ \o StripLeading(lines[i])],
                       FALSE)
    ELSE TrimFrom(lines, i + 1, Append(acc, StripLeading(lines[i])), FALSE)

TrimLines(str) ==
    LET out == TrimFrom(str, 1, <<>>, FALSE)
    IN  IF out = <<>> THEN EmptyString ELSE out

(***************************************************************************)
(* str.split('\n<000000>\n'): a line that is exactly the separator marker, *)
(* neither the first nor the last line, whose leading "\n" was not taken   *)
(* by the separator before it.                                             *)
(***************************************************************************)
RECURSIVE SplitFrom(_, _, _, _)
SplitFrom(lines, i, cur, acc) ==
    IF i > Len(lines) THEN Append(acc, cur)
    ELSE IF lines[i] = <<Marker(Separator)>> /\ cur # <<>> /\ i < Len(lines)
         THEN SplitFrom(lines, i + 1, <<>>, Append(acc, cur))
    ELSE SplitFrom(lines, i + 1, Append(cur, lines[i]), acc)

SplitSeparator(str) == SplitFrom(str, 1, <<>>, <<>>)

\* queue.join('\n<000000>\n')
RECURSIVE JoinSeparator(_)
JoinSeparator(queue) ==
    IF queue = <<>> THEN EmptyString
    ELSE IF Len(queue) = 1 THEN queue[1]
    ELSE queue[1] \o <<<<Marker(Separator)>>>> \o JoinSeparator(Tail(queue))

(***************************************************************************)
(* The first match of translatedToCues' pattern, a marker followed by      *)
(* "\n" and the rest of the next line: the first line, not the last one,   *)
(* that ends with a marker; the text is the next line.                     *)
(***************************************************************************)
MatchLines(item) ==
    {i \in 1..(Len(item) - 1) :
        item[i] # <<>> /\ IsMarker(item[i][Len(item[i])])}

HasMatch(item) == MatchLines(item) # {}

FirstMatch(item) ==
    LET i == CHOOSE j \in MatchLines(item) : \A k \in MatchLines(item) : j <= k
    IN  [code |-> TokenOf(item[i][Len(item[i])]), text |-> <<item[i + 1]>>]

(***************************************************************************)
(* Nodes                                                                   *)
(***************************************************************************)

\* The value of a field that is null or undefined.
Null == <<>>

\* The nodes parseSync may return, before their timing: a header (its data
\* is a string, it has no text), a cue without data, a cue whose text is
\* empty, a cue of one line and a cue of two lines.
NodeKinds ==
    { [type |-> "header", hasData |-> TRUE, hasText |-> FALSE, text |-> EmptyString],
      [type |-> "cue", hasData |-> FALSE, hasText |-> FALSE, text |-> EmptyString],
      [type |-> "cue", hasData |-> TRUE, hasText |-> TRUE, text |-> EmptyString],
      [type |-> "cue", hasData |-> TRUE, hasText |-> TRUE, text |-> <<<<"Hello">>>>],
      [type |-> "cue", hasData |-> TRUE, hasText |-> TRUE,
       text |-> <<<<"Hello">>, <<"World">>>>] }

\* The files of at most n nodes; the timing of a node is its position.
Inputs(n) ==
    UNION { { [i \in 1..k |->
                 [type |-> kinds[i].type, timing |-> i, hasData |-> kinds[i].hasData,
                  hasText |-> kinds[i].hasText, text |-> kinds[i].text]] :
              kinds \in [1..k -> NodeKinds] } : k \in 0..n }

\* parseFile: every node gets a code of its own draw.
WithCodes(nodes, codes) ==
    [i \in 1..Len(nodes) |->
        [type |-> nodes[i].type, timing |-> nodes[i].timing,
         hasData |-> nodes[i].hasData, hasText |-> nodes[i].hasText,
         text |-> nodes[i].text, code |-> codes[i]]]

(***************************************************************************)
(* getMessageQueue                                                         *)
(***************************************************************************)

\* type === 'cue' && !!data?.text
Translatable(item) ==
    item.type = "cue" /\ item.hasData /\ item.hasText /\ Truthy(item.text)

\* `<${code}>\n${data.text}`
MessageOf(item) == <<<<Marker(item.code)>>>> \o item.text

RECURSIVE CueMessages(_)
CueMessages(items) ==
    IF items = <<>> THEN <<>>
    ELSE IF Translatable(Head(items))
         THEN <<MessageOf(Head(items))>> \o CueMessages(Tail(items))
    ELSE CueMessages(Tail(items))

Min(a, b) == IF a <= b THEN a ELSE b

\* Math.ceil(n / size), size >= 1
Ceil(n, size) == (n + size - 1) \div size

\* Math.floor(n / size): the partial last batch is lost.
FloorBatches(n, size) == n \div size

BatchCount(n, size) == Ceil(n, size)

\* Array(batches) throws a RangeError when batches is Infinity or NaN.
InvalidLength(n, size) == size = 0

getMessageQueue(items, size) ==
    LET cues == CueMessages(items)
        batches == BatchCount(Len(cues), size)
    IN  [index \in 1..batches |->
            SubSeq(cues, (index - 1) * size + 1, Min(index * size, Len(cues)))]

(***************************************************************************)
(* The transport: openai.createChatCompletion, as getChatGPTAnswer sees it *)
(***************************************************************************)

\* options.prompt with [lang] and [text] replaced
Prompt(queue) ==
    << <<"Translate the following text into ", "en-us",
         " but keep the 6 digit codes between < > intact:">>, <<>> >>
    \o JoinSeparator(queue)

\* The lines a reply is made of here: an empty line, an indented line, a
\* line of text, a marker with a truncated token, the markers.
ReplyLines ==
    { <<>>, <<" ", "Bonjour">>, <<"Bonjour">>, <<"<AB1>">> }
    \cup { <<Marker(t)>> : t \in Tokens }

\* The texts of at most MaxReplyLines lines that are not the empty string.
ReplyTexts ==
    UNION { [1..n -> ReplyLines] : n \in 1..MaxReplyLines } \ {EmptyString}

\* The reply of a transform that keeps the markers and the separators and
\* puts a translation in place of every other line.
TranslatedPayload(payload) ==
    [i \in 1..Len(payload) |->
        IF Len(payload[i]) = 1 /\ IsMarker(payload[i][1]) THEN payload[i]
        ELSE <<"Bonjour">>]

Response(kind, content) == [kind |-> kind, content |-> content]

\* The request is rejected; the response has no choices; its choice has no
\* message; the message has no content; the content is the empty string;
\* the content is a text: a short one, the payload sent, unchanged, or the
\* payload translated line by line.
Responses(queue) ==
    { Response(k, EmptyString) :
        k \in {"rejected", "noChoices", "noMessage", "noContent", "emptyContent"} }
    \cup { Response("content", t) :
             t \in ReplyTexts \cup { JoinSeparator(queue),
                                     TranslatedPayload(JoinSeparator(queue)) } }

\* completion?.data.choices[0].message?.content, where it does not throw
Answer(response) ==
    IF response.kind = "content" THEN response.content ELSE Null

\* choices[0] is undefined: reading .message of it throws a TypeError
AnswerThrows(response) == response.kind = "noChoices"

\* translateQueue, after the await
translateQueue(queue, response) ==
    LET translation == Answer(response)
    IN  IF translation = Null \/ ~Truthy(translation) THEN queue
        ELSE SplitSeparator(TrimLines(translation))

(***************************************************************************)
(* translatedToCues, applyTranslationCues, prepareOutput                   *)
(***************************************************************************)

\* Destructuring the value of next() throws when the item has no match.
translatedToCuesThrows(translated) ==
    \E i \in 1..Len(translated) : ~HasMatch(translated[i])

RECURSIVE translatedToCues(_)
translatedToCues(translated) ==
    IF translated = <<>> THEN <<>>
    ELSE LET m == FirstMatch(Head(translated))
         IN  IF ~Truthy(m.text) THEN translatedToCues(Tail(translated))
             ELSE <<m>> \o translatedToCues(Tail(translated))

\* new Map(pairs).get(code) ?? null: the last pair of a code wins
MapGet(translations, code) ==
    LET at == {i \in 1..Len(translations) : translations[i].code = code}
    IN  IF at = {} THEN Null
        ELSE translations[CHOOSE i \in at : \A j \in at : j <= i].text

applyTranslationCues(items, translations) ==
    [i \in 1..Len(items) |->
        [type |-> items[i].type, timing |-> items[i].timing,
         hasData |-> items[i].hasData, hasText |-> items[i].hasText,
         text |-> items[i].text, code |-> items[i].code,
         translated |-> MapGet(translations, items[i].code)]]

\* One item of prepareOutput; the rewritten item loses code and translated.
PrepareItem(item) ==
    IF item.translated = Null \/ ~Truthy(item.translated)
       \/ item.type # "cue" \/ ~item.hasData
    THEN item
    ELSE [type |-> item.type, timing |-> item.timing, hasData |-> TRUE,
          hasText |-> TRUE, text |-> item.translated, code |-> "",
          translated |-> Null]

\* A filter in place of the map: the items without a translation are lost.
RECURSIVE PrepareTranslatedOnly(_)
PrepareTranslatedOnly(items) ==
    IF items = <<>> THEN <<>>
    ELSE IF Head(items).translated = Null THEN PrepareTranslatedOnly(Tail(items))
    ELSE <<PrepareItem(Head(items))>> \o PrepareTranslatedOnly(Tail(items))

prepareOutput(items) == [i \in 1..Len(items) |-> PrepareItem(items[i])]

(***************************************************************************)
(* The run: main                                                           *)
(***************************************************************************)
VARIABLES
    pc,                  \* where main is
    input,               \* the nodes of the input file
    batchSize,           \* options.batchSize
    parsed,              \* parseFile's result
    messages,            \* getMessageQueue's result
    queueIndex,          \* translateQueues' loop index (from 1)
    inFlight,            \* the transport calls not yet completed
    requests,            \* the requests sent (batch index, prompt), in order
    replies,             \* the responses received, in order
    result,              \* translateQueues' result
    translatedCues,      \* translatedToCues' result
    translatedSubtitles, \* applyTranslationCues' result
    preparedOutput,      \* prepareOutput's result
    written,             \* whether the output file was written
    raised,              \* the function an exception was raised in, or "none"
    exitCode             \* the status process.exit was called with, -1 before

vars == <<pc, input, batchSize, parsed, messages, queueIndex, inFlight, requests,
          replies, result, translatedCues, translatedSubtitles, preparedOutput,
          written, raised, exitCode>>

Blank ==
    /\ parsed = <<>> /\ messages = <<>> /\ queueIndex = 1 /\ inFlight = 0
    /\ requests = <<>> /\ replies = <<>> /\ result = <<>>
    /\ translatedCues = <<>> /\ translatedSubtitles = <<>>
    /\ preparedOutput = <<>> /\ written = FALSE /\ raised = "none"
    /\ exitCode = -1

Init ==
    /\ pc = "start"
    /\ input \in Inputs(MaxCues)
    /\ batchSize \in 0..MaxBatchSize
    /\ Blank

\* fs.readFile rejects: readFile throws.  Otherwise parseSync gives the nodes.
ReadFile ==
    /\ pc = "start"
    /\ \/ pc' = "read" /\ raised' = raised
       \/ pc' = "failed" /\ raised' = "readFile"
    /\ UNCHANGED <<input, batchSize, parsed, messages, queueIndex, inFlight,
                   requests, replies, result, translatedCues,
                   translatedSubtitles, preparedOutput, written, exitCode>>

ParseFile ==
    /\ pc = "read"
    /\ \E codes \in [1..Len(input) -> Codes] : parsed' = WithCodes(input, codes)
    /\ pc' = "parsed"
    /\ UNCHANGED <<input, batchSize, messages, queueIndex, inFlight, requests,
                   replies, result, translatedCues, translatedSubtitles,
                   preparedOutput, written, raised, exitCode>>

GetMessageQueue ==
    /\ pc = "parsed"
    /\ IF InvalidLength(Len(CueMessages(parsed)), batchSize)
       THEN /\ pc' = "failed" /\ raised' = "getMessageQueue"
            /\ UNCHANGED messages
       ELSE /\ messages' = getMessageQueue(parsed, batchSize)
            /\ pc' = "translating" /\ raised' = raised
    /\ UNCHANGED <<input, batchSize, parsed, queueIndex, inFlight, requests,
                   replies, result, translatedCues, translatedSubtitles,
                   preparedOutput, written, exitCode>>

\* translateQueues' loop reaches a queue: translateQueue builds the prompt
\* and getChatGPTAnswer sends it.
Request ==
    /\ pc = "translating"
    /\ queueIndex <= Len(messages)
    /\ requests' = Append(requests, [index |-> queueIndex,
                                     prompt |-> Prompt(messages[queueIndex])])
    /\ inFlight' = inFlight + 1
    /\ pc' = "awaiting"
    /\ UNCHANGED <<input, batchSize, parsed, messages, queueIndex, replies,
                   result, translatedCues, translatedSubtitles, preparedOutput,
                   written, raised, exitCode>>

\* The call completes; translateQueue returns and its result is pushed.
Respond ==
    /\ pc = "awaiting"
    /\ \E response \in Responses(messages[queueIndex]) :
        /\ replies' = Append(replies, response)
        /\ inFlight' = inFlight - 1
        /\ IF AnswerThrows(response)
           THEN /\ pc' = "failed" /\ raised' = "translateQueues"
                /\ UNCHANGED <<result, queueIndex>>
           ELSE /\ result' = result \o translateQueue(messages[queueIndex], response)
                /\ queueIndex' = queueIndex + 1
                /\ pc' = "translating" /\ raised' = raised
    /\ UNCHANGED <<input, batchSize, parsed, messages, requests, translatedCues,
                   translatedSubtitles, preparedOutput, written, exitCode>>

\* The loop is over: translateQueues returns.
TranslateQueuesReturn ==
    /\ pc = "translating"
    /\ queueIndex > Len(messages)
    /\ pc' = "translated"
    /\ UNCHANGED <<input, batchSize, parsed, messages, queueIndex, inFlight,
                   requests, replies, result, translatedCues,
                   translatedSubtitles, preparedOutput, written, raised, exitCode>>

TranslatedToCues ==
    /\ pc = "translated"
    /\ IF translatedToCuesThrows(result)
       THEN /\ pc' = "failed" /\ raised' = "translatedToCues"
            /\ UNCHANGED translatedCues
       ELSE /\ translatedCues' = translatedToCues(result)
            /\ pc' = "cues" /\ raised' = raised
    /\ UNCHANGED <<input, batchSize, parsed, messages, queueIndex, inFlight,
                   requests, replies, result, translatedSubtitles,
                   preparedOutput, written, exitCode>>

ApplyTranslationCues ==
    /\ pc = "cues"
    /\ translatedSubtitles' = applyTranslationCues(parsed, translatedCues)
    /\ pc' = "applied"
    /\ UNCHANGED <<input, batchSize, parsed, messages, queueIndex, inFlight,
                   requests, replies, result, translatedCues, preparedOutput,
                   written, raised, exitCode>>

PrepareOutput ==
    /\ pc = "applied"
    /\ preparedOutput' = prepareOutput(translatedSubtitles)
    /\ pc' = "prepared"
    /\ UNCHANGED <<input, batchSize, parsed, messages, queueIndex, inFlight,
                   requests, replies, result, translatedCues,
                   translatedSubtitles, written, raised, exitCode>>

\* stringifySync, then writeFile: fs.writeFile resolves or rejects.
WriteFile ==
    /\ pc = "prepared"
    /\ \/ pc' = "done" /\ written' = TRUE /\ raised' = raised
       \/ pc' = "failed" /\ written' = written /\ raised' = "writeFile"
    /\ UNCHANGED <<input, batchSize, parsed, messages, queueIndex, inFlight,
                   requests, replies, result, translatedCues,
                   translatedSubtitles, preparedOutput, exitCode>>

\* main().then(...).catch(...).then(() => process.exit(0))
Exit ==
    /\ pc \in {"done", "failed"}
    /\ exitCode' = 0
    /\ pc' = "exited"
    /\ UNCHANGED <<input, batchSize, parsed, messages, queueIndex, inFlight,
                   requests, replies, result, translatedCues,
                   translatedSubtitles, preparedOutput, written, raised>>

Next ==
    \/ ReadFile \/ ParseFile \/ GetMessageQueue \/ Request \/ Respond
    \/ TranslateQueuesReturn \/ TranslatedToCues \/ ApplyTranslationCues
    \/ PrepareOutput \/ WriteFile \/ Exit

Spec == Init /\ [][Next]_vars
(***************************************************************************)
(* The two pure stages on their own: getMessageQueue over every file and   *)
(* batch size, and applyTranslationCues with prepareOutput over every      *)
(* parsed file and every list of pairs.                                    *)
(***************************************************************************)
InitPlan ==
    /\ pc = "start"
    /\ input \in Inputs(MaxPlanCues)
    /\ batchSize \in 0..MaxBatchSize
    /\ Blank

NextPlan == ReadFile \/ ParseFile \/ GetMessageQueue

SpecPlan == InitPlan /\ [][NextPlan]_vars

\* The pairs translatedToCues may return: a token and one line of text.
Pairs ==
    { [code |-> t, text |-> <<<<w>>>>] : t \in Tokens, w \in {"Bonjour", "Monde"} }

PairLists == UNION { [1..n -> Pairs] : n \in 0..MaxPairs }

InitReassemble ==
    /\ pc = "cues"
    /\ input \in Inputs(MaxCues)
    /\ batchSize \in 1..MaxBatchSize
    /\ parsed \in { WithCodes(input, codes) : codes \in [1..Len(input) -> Codes] }
    /\ translatedCues \in PairLists
    /\ messages = <<>> /\ queueIndex = 1 /\ inFlight = 0
    /\ requests = <<>> /\ replies = <<>> /\ result = <<>>
    /\ translatedSubtitles = <<>> /\ preparedOutput = <<>>
    /\ written = FALSE /\ raised = "none" /\ exitCode = -1

NextReassemble == ApplyTranslationCues \/ PrepareOutput

SpecReassemble == InitReassemble /\ [][NextReassemble]_vars

(***************************************************************************)
(* Properties                                                              *)
(***************************************************************************)

\* translateQueue returned the queue itself: the batch counts as failed.
FailedOpen(response) ==
    response.kind \in {"rejected", "noMessage", "noContent", "emptyContent"}

SameText(a, b) == a.hasText = b.hasText /\ a.text = b.text

TranslatableAt == {i \in 1..Len(parsed) : Translatable(parsed[i])}

RECURSIVE Flatten(_)
Flatten(queues) ==
    IF queues = <<>> THEN <<>> ELSE Head(queues) \o Flatten(Tail(queues))

\* The position in parsed of the j-th translatable cue.
NthTranslatable(j) ==
    CHOOSE i \in TranslatableAt :
        Cardinality({h \in TranslatableAt : h <= i}) = j

\* The tokens of the items of batch k, and the pairs of batch k's result
\* that carry one of them.
BatchTokens(k) ==
    {TokenOf(messages[k][j][1][1]) : j \in 1..Len(messages[k])}

OwnPairs(k) ==
    LET Own(pair) == pair.code \in BatchTokens(k)
    IN  SelectSeq(translatedToCues(translateQueue(messages[k], replies[k])), Own)

RECURSIVE OwnPairsUpTo(_)
OwnPairsUpTo(k) == IF k = 0 THEN <<>> ELSE OwnPairsUpTo(k - 1) \o OwnPairs(k)

\* C1: when the transport fails for every batch, the type, timing and text
\* of every output entry are those of the input entry at its position.
C1_FailOpenIdentity ==
    (/\ pc = "prepared"
     /\ \A k \in 1..Len(replies) : FailedOpen(replies[k]))
    => /\ Len(preparedOutput) = Len(input)
       /\ \A i \in 1..Len(input) :
            /\ preparedOutput[i].type = input[i].type
            /\ preparedOutput[i].timing = input[i].timing
            /\ SameText(preparedOutput[i], input[i])

\* C2: no reply makes translatedToCues raise: a segment without a marker
\* followed by a text line is discarded and the run goes on.
C2_ParserNeverAborts == raised # "translatedToCues"

\* C3: no transport failure raises out of translateQueues, and the run is
\* past translateQueues only when every batch has been attempted.
C3_TransportFailureNeverRaises ==
    /\ raised # "translateQueues"
    /\ pc \in {"translated", "cues", "applied", "prepared", "done", "exited"}
       => Len(requests) = Len(messages)

\* C4: the output of applyTranslationCues and prepareOutput has the length
\* of the parsed input and its entry at each position has the type and the
\* timing of the input entry at that position.
C4_OutputKeepsLengthAndOrder ==
    pc = "prepared"
    => /\ Len(preparedOutput) = Len(parsed)
       /\ \A i \in 1..Len(parsed) :
            /\ preparedOutput[i].type = parsed[i].type
            /\ preparedOutput[i].timing = parsed[i].timing

C4_Witness ==
    /\ pc = "prepared"
    /\ Len(parsed) >= 2
    /\ \E i, j \in 1..Len(parsed) :
        /\ preparedOutput[i].text # parsed[i].text
        /\ Translatable(parsed[j])
        /\ preparedOutput[j].text = parsed[j].text
        /\ translatedSubtitles[j].translated = Null

\* C5: a cue whose text is empty or absent is in no batch, and its text in
\* the output is its input text, whatever the transport replied and
\* whatever codes parseFile drew.
C5_NoTextPassThrough ==
    /\ pc \in {"translating", "awaiting", "translated", "cues", "applied", "prepared"}
       => /\ Len(Flatten(messages)) = Cardinality(TranslatableAt)
          /\ \A i \in 1..Len(parsed) :
                ~Translatable(parsed[i])
                => \A k \in 1..Len(messages) : \A j \in 1..Len(messages[k]) :
                       messages[k][j] # MessageOf(parsed[i])
    /\ pc = "prepared"
       => \A i \in 1..Len(parsed) :
             (parsed[i].type = "cue" /\ ~Translatable(parsed[i]))
             => SameText(preparedOutput[i], parsed[i])

\* C6: a pair recovered from the reply to batch k whose token is the token
\* of no item of batch k changes the output text of no cue: the output
\* texts are those the pairs with a token of their own batch give.
C6_ForeignPairsDiscarded ==
    pc = "prepared"
    => LET own == prepareOutput(
                      applyTranslationCues(parsed, OwnPairsUpTo(Len(messages))))
       IN  \A i \in 1..Len(parsed) : SameText(preparedOutput[i], own[i])

\* C7: when the codes are distinct and every reply is the payload sent,
\* unchanged, every cue sent has its original text in the output.
C7_RoundTripIdentity ==
    (/\ pc = "prepared"
     /\ \A i, j \in 1..Len(parsed) : i # j => parsed[i].code # parsed[j].code
     /\ \A k \in 1..Len(replies) :
            replies[k] = Response("content", JoinSeparator(messages[k])))
    => \A i \in TranslatableAt : SameText(preparedOutput[i], parsed[i])

\* C8: for a batch size of at least 1 and n translatable cues,
\* getMessageQueue returns ceil(n / batchSize) batches, each but the last
\* of batchSize items, the last of 1 to batchSize items, and the batches
\* in order are the translatable cues in order.
C8_BatchPartition ==
    (pc = "translating" /\ batchSize >= 1)
    => LET n == Cardinality(TranslatableAt)
           count == Len(messages)
       IN  /\ count * batchSize >= n
           /\ (count - 1) * batchSize < n
           /\ \A k \in 1..(count - 1) : Len(messages[k]) = batchSize
           /\ count >= 1
              => Len(messages[count]) >= 1 /\ Len(messages[count]) <= batchSize
           /\ Len(Flatten(messages)) = n
           /\ \A j \in 1..n : Flatten(messages)[j] = MessageOf(parsed[NthTranslatable(j)])

C8_Witness ==
    /\ pc = "translating"
    /\ batchSize >= 2
    /\ Len(messages) = 2
    /\ Len(messages[1]) = batchSize
    /\ Len(messages[2]) < batchSize
    /\ \E i \in 1..Len(parsed) : ~Translatable(parsed[i])

\* C9: a run in which reading, writing or the configuration failed exits
\* with a status other than 0, and only a run without failure exits with 0.
C9_StructuralFailureExitsNonZero ==
    pc = "exited"
    => /\ raised \in {"readFile", "writeFile", "getMessageQueue"} => exitCode # 0
       /\ exitCode = 0 => raised = "none"

\* C10: the batches are requested in index order, one call at most is in
\* flight, a batch is requested only when the calls before it have
\* completed, and a run that has ended has made one call for every batch.
C10_OneCallPerBatchInOrder ==
    /\ inFlight <= 1
    /\ \A k \in 1..Len(requests) :
        requests[k].index = k /\ requests[k].prompt = Prompt(messages[k])
    /\ Len(requests) <= Len(replies) + 1
    /\ Len(requests) <= Len(messages)
    /\ pc = "exited" => Len(requests) = Len(messages)
====
